---- MODULE Spec2Model ----
(***************************************************************************)
(* The AWS request signer of GasAWS (the closure AWS: init, request,       *)
(* getSignatureKey, bytesToHex) as a state machine.                        *)
(*                                                                         *)
(* A JavaScript string is a sequence of one-character strings, so that     *)
(* toLowerCase, the comparison a < b, encodeURIComponent and the hex       *)
(* conversions are computed character by character as the code does.       *)
(* A byte array is a sequence of integers.  The value undefined is the     *)
(* one-element sequence Undefined, which is no string.  An object used as  *)
(* a map (headers, params) is a function from its keys to its values.      *)
(***************************************************************************)
EXTENDS Integers, Sequences, FiniteSets, TLC

VARIABLES accessKey, secretKey, callerHeaders, last

vars == <<accessKey, secretKey, callerHeaders, last>>

(***************************************************************************)
(* JavaScript values and string primitives                                 *)
(***************************************************************************)

Undefined == <<"undefined-value">>

\* The printable ASCII characters in code order, 32 (space) to 126 (~); the
\* grave accent (96), which a TLA+ string cannot hold, is spelled out.
Printable ==
  <<" ", "!", "\"", "#", "$", "%", "&", "'", "(", ")", "*", "+", ",", "-", ".", "/",
    "0", "1", "2", "3", "4", "5", "6", "7", "8", "9", ":", ";", "<", "=", ">", "?",
    "@", "A", "B", "C", "D", "E", "F", "G", "H", "I", "J", "K", "L", "M", "N", "O",
    "P", "Q", "R", "S", "T", "U", "V", "W", "X", "Y", "Z", "[", "\\", "]", "^", "_",
    "grave", "a", "b", "c", "d", "e", "f", "g", "h", "i", "j", "k", "l", "m", "n", "o",
    "p", "q", "r", "s", "t", "u", "v", "w", "x", "y", "z", "{", "|", "}", "~">>

Chars == {Printable[i] : i \in 1..Len(Printable)} \cup {"\n"}

\* The UTF-16 code unit of each character.
CodeTable ==
  [c \in Chars |-> IF c = "\n" THEN 10
                   ELSE 31 + (CHOOSE i \in 1..Len(Printable) : Printable[i] = c)]

\* String.prototype.charCodeAt(0) of a one-character string.
charCodeAt(c) == CodeTable[c]

\* String.fromCharCode(n).
fromCharCode(n) == IF n = 10 THEN "\n" ELSE Printable[n - 31]

\* The digits of Number.prototype.toString(radix): lower case.
Digits == <<"0", "1", "2", "3", "4", "5", "6", "7", "8", "9", "a", "b", "c", "d", "e", "f">>

\* Number.prototype.toString(16) of an integer.
RECURSIVE toString16(_)
toString16(n) ==
  IF n < 0 THEN <<"-">> \o toString16(-n)
  ELSE IF n < 16 THEN <<Digits[n + 1]>>
  ELSE toString16(n \div 16) \o <<Digits[(n % 16) + 1]>>

\* String.prototype.toLowerCase().
toLowerCase(s) ==
  [i \in DOMAIN s |->
     LET n == charCodeAt(s[i])
     IN  IF n >= 65 /\ n <= 90 THEN fromCharCode(n + 32) ELSE s[i]]

\* String.prototype.toUpperCase().
toUpperCase(s) ==
  [i \in DOMAIN s |->
     LET n == charCodeAt(s[i])
     IN  IF n >= 97 /\ n <= 122 THEN fromCharCode(n - 32) ELSE s[i]]

\* The JavaScript comparison a < b of two strings: by code units, a proper
\* prefix being smaller.
RECURSIVE StrLess(_, _)
StrLess(a, b) ==
  IF b = <<>> THEN FALSE
  ELSE IF a = <<>> THEN TRUE
  ELSE IF charCodeAt(a[1]) # charCodeAt(b[1]) THEN charCodeAt(a[1]) < charCodeAt(b[1])
  ELSE StrLess(Tail(a), Tail(b))

\* Object.keys(obj).sort(function(a,b) { return a<b?-1:1; }): the keys are
\* distinct, so the comparator is a strict total order and the result is the
\* ascending order by a < b whatever the order Object.keys gives.
RECURSIVE SortKeys(_)
SortKeys(keys) ==
  IF keys = {} THEN <<>>
  ELSE LET first == CHOOSE a \in keys : \A b \in keys \ {a} : StrLess(a, b)
       IN  <<first>> \o SortKeys(keys \ {first})

\* A value is falsy (!v, v || d) when it is undefined or the empty string.
Falsy(v) == v = Undefined \/ v = <<>>

\* v || d
Or(v, d) == IF Falsy(v) THEN d ELSE v

\* The string conversion of a value in a template literal or under + :
\* undefined becomes the text "undefined".
S_undefined == <<"u", "n", "d", "e", "f", "i", "n", "e", "d">>

String(v) == IF v = Undefined THEN S_undefined ELSE v

\* Number to decimal text, left-padded with zeros to the given width (the
\* yyyy, MM, dd, HH, mm and ss fields of a date pattern).
RECURSIVE toString10(_)
toString10(n) ==
  IF n < 10 THEN <<Digits[n + 1]>>
  ELSE toString10(n \div 10) \o <<Digits[(n % 10) + 1]>>

RECURSIVE Pad(_, _)
Pad(s, width) == IF Len(s) >= width THEN s ELSE Pad(<<"0">> \o s, width)

\* Utilities.formatDate(date, "GMT", "yyyyMMdd'T'HHmmss'Z'") of an instant
\* given by its GMT calendar fields.
formatDate(date) ==
  Pad(toString10(date.year), 4) \o Pad(toString10(date.month), 2)
    \o Pad(toString10(date.day), 2) \o <<"T">>
    \o Pad(toString10(date.hours), 2) \o Pad(toString10(date.minutes), 2)
    \o Pad(toString10(date.seconds), 2) \o <<"Z">>

\* Array.prototype.filter(Boolean).
FilterBoolean(list) == SelectSeq(list, LAMBDA v : ~Falsy(v))

\* Array.prototype.join(sep) of an array of strings.
RECURSIVE Join(_, _)
Join(list, sep) ==
  IF list = <<>> THEN <<>>
  ELSE IF Len(list) = 1 THEN list[1]
  ELSE list[1] \o sep \o Join(Tail(list), sep)

\* obj[k] = v and delete obj[k] on an object used as a map.
Put(obj, k, v) == [x \in (DOMAIN obj) \cup {k} |-> IF x = k THEN v ELSE obj[x]]

Delete(obj, k) == [x \in (DOMAIN obj) \ {k} |-> obj[x]]

EmptyObject == [x \in {} |-> <<>>]

\* JSON.stringify of an object given as its <<key, value>> pairs in
\* insertion order, keys and values being strings that need no escaping.
JSONstringify(pairs) ==
  <<"{">>
    \o Join([i \in DOMAIN pairs |->
               <<"\"">> \o pairs[i][1] \o <<"\"", ":", "\"">> \o pairs[i][2] \o <<"\"">>],
            <<",">>)
    \o <<"}">>

(***************************************************************************)
(* The platform's digests.  Utilities.computeDigest and                    *)
(* Utilities.computeHmacSha256Signature are not code of this repository;   *)
(* SHA-256 is stood in for by a 16-bit position-weighted checksum that,    *)
(* like the platform, returns an array of signed bytes (-128..127).        *)
(* Nothing settled below rests on the checksum being collision-free.       *)
(***************************************************************************)

\* Utilities.newBlob(value).getBytes(): the bytes of an ASCII string.
getBytes(value) == [i \in DOMAIN value |-> charCodeAt(value[i])]

\* The weight of bytes[i] in the checksum, the byte taken unsigned.
Weighted(bytes, i) == (31 * i + 7) * (((bytes[i] + 256) % 256) + 1)

\* The weighted sum of bytes[lo..hi] modulo 2^16.
RECURSIVE Checksum(_, _, _)
Checksum(bytes, lo, hi) ==
  IF lo > hi THEN 0
  ELSE IF hi - lo < 4
  THEN (Weighted(bytes, lo)
          + (IF lo + 1 <= hi THEN Weighted(bytes, lo + 1) ELSE 0)
          + (IF lo + 2 <= hi THEN Weighted(bytes, lo + 2) ELSE 0)
          + (IF lo + 3 <= hi THEN Weighted(bytes, lo + 3) ELSE 0)) % 65536
  ELSE LET mid == (lo + hi) \div 2
       IN  (Checksum(bytes, lo, mid) + Checksum(bytes, mid + 1, hi)) % 65536

SignedByte(u) == IF u > 127 THEN u - 256 ELSE u

DigestBytes(h) == <<SignedByte(h \div 256), SignedByte(h % 256)>>

\* Utilities.computeDigest(Utilities.DigestAlgorithm.SHA_256, value).
computeDigest(value) ==
  LET bytes == getBytes(value)
  IN  DigestBytes((Checksum(bytes, 1, Len(bytes)) + 40503) % 65536)

\* Utilities.computeHmacSha256Signature(value, key) on Byte[] arguments.
computeHmacSha256Signature(value, key) ==
  LET bytes == key \o <<0>> \o value
  IN  DigestBytes((Checksum(bytes, 1, Len(bytes)) + 4099 * Len(key)) % 65536)

\* Utilities.computeHmacSha256Signature(value, key) on String arguments.
computeHmacSha256SignatureOfStrings(value, key) ==
  computeHmacSha256Signature(getBytes(value), getBytes(key))

(***************************************************************************)
(* The closure's functions                                                 *)
(***************************************************************************)

AWS_DEFAULT_BUCKET == <<"D", "e", "f", "a", "u", "l", "t", "S", "3", "B", "u", "c", "k", "e", "t">>

AWS_DEFAULT_REGION == <<"u", "s", "-", "e", "a", "s", "t", "-", "1">>

S_MissingService ==
  <<"M", "i", "s", "s", "i", "n", "g", " ", "A", "W", "S", " ", "A", "P", "I", " ",
    "S", "e", "r", "v", "i", "c", "e">>

S_MissingAction ==
  <<"M", "i", "s", "s", "i", "n", "g", " ", "A", "W", "S", " ", "A", "P", "I", " ",
    "A", "c", "t", "i", "o", "n">>

S_GET == <<"G", "E", "T">>

S_Slash == <<"/">>

S_post == <<"p", "o", "s", "t">>

S_https == <<"h", "t", "t", "p", "s", ":", "/", "/">>

S_Action == <<"A", "c", "t", "i", "o", "n", "=">>

S_Host == <<"H", "o", "s", "t">>

S_XAmzDate == <<"X", "-", "A", "m", "z", "-", "D", "a", "t", "e">>

S_XAmzTarget == <<"X", "-", "A", "m", "z", "-", "T", "a", "r", "g", "e", "t">>

S_XAmzContentSHA256 ==
  <<"X", "-", "A", "m", "z", "-", "C", "o", "n", "t", "e", "n", "t", "-",
    "S", "H", "A", "2", "5", "6">>

S_Authorization == <<"A", "u", "t", "h", "o", "r", "i", "z", "a", "t", "i", "o", "n">>

S_algorithm == <<"A", "W", "S", "4", "-", "H", "M", "A", "C", "-", "S", "H", "A", "2", "5", "6">>

S_aws4_request == <<"a", "w", "s", "4", "_", "r", "e", "q", "u", "e", "s", "t">>

S_Credential == <<" ", "C", "r", "e", "d", "e", "n", "t", "i", "a", "l", "=">>

S_SignedHeaders == <<",", " ", "S", "i", "g", "n", "e", "d", "H", "e", "a", "d", "e", "r", "s", "=">>

S_Signature == <<",", "S", "i", "g", "n", "a", "t", "u", "r", "e", "=">>

S_AWS4 == <<"A", "W", "S", "4">>

S_s3 == <<"s", "3">>

S_amazonaws == <<"a", "m", "a", "z", "o", "n", "a", "w", "s", ".", "c", "o", "m">>

\* The loop body without its padding step (if (c.length == 1) c = "0" + c).
HexOfByte_NoPad(b) ==
  IF b < 0 THEN toString16(256 + b) ELSE toString16(b)

\* BytesToHex: one pass of the loop body, the text pushed for bytes[i].
HexOfByte(b) ==
  LET c == IF b < 0 THEN toString16(256 + b) ELSE toString16(b)
  IN  IF Len(c) = 1 THEN <<"0">> \o c ELSE c

\* BytesToHex(bytes): hex.join("") of the pushed texts.
BytesToHex(bytes) == Join([i \in DOMAIN bytes |-> HexOfByte(bytes[i])], <<>>)

Sha256Hash(value) == BytesToHex(computeDigest(value))

Sha256Hmac(value, key) == BytesToHex(computeHmacSha256Signature(getBytes(value), key))

\* The chain with each stage's hex text, not its raw bytes, as the next key.
GetSignatureKey_HexStages(key, dateStamp, regionName, serviceName) ==
  LET kDate    == computeHmacSha256SignatureOfStrings(dateStamp, S_AWS4 \o String(key))
      kRegion  == computeHmacSha256Signature(getBytes(regionName), getBytes(BytesToHex(kDate)))
      kService == computeHmacSha256Signature(getBytes(serviceName), getBytes(BytesToHex(kRegion)))
      kSigning == computeHmacSha256Signature(getBytes(S_aws4_request), getBytes(BytesToHex(kService)))
  IN  kSigning

GetSignatureKey(key, dateStamp, regionName, serviceName) ==
  LET kDate    == computeHmacSha256SignatureOfStrings(dateStamp, S_AWS4 \o String(key))
      kRegion  == computeHmacSha256Signature(getBytes(regionName), kDate)
      kService == computeHmacSha256Signature(getBytes(serviceName), kRegion)
      kSigning == computeHmacSha256Signature(getBytes(S_aws4_request), kService)
  IN  kSigning

\* encodeURIComponent leaves A-Z a-z 0-9 - _ . ! ~ * ' ( ) alone and writes
\* every other character as % and its two upper-case hex digits.
Unreserved(c) ==
  LET n == charCodeAt(c)
  IN  \/ n >= 65 /\ n <= 90
      \/ n >= 97 /\ n <= 122
      \/ n >= 48 /\ n <= 57
      \/ c \in {"-", "_", ".", "!", "~", "*", "'", "(", ")"}

encodeURIComponent(str) ==
  Join([i \in DOMAIN String(str) |->
          LET c == String(str)[i]
          IN  IF Unreserved(c) THEN <<c>>
              ELSE <<"%">> \o toUpperCase(Pad(toString16(charCodeAt(c)), 2))],
       <<>>)

\* The replacement function of UrlEncode: '%' + c.charCodeAt(0).toString(16).
EscapeChar(c) == <<"%">> \o toString16(charCodeAt(c))

\* UrlEncode(str): encodeURIComponent(str).replace(/[!'()*]/g, ...).
UrlEncode(str) ==
  LET e == encodeURIComponent(str)
  IN  Join([i \in DOMAIN e |->
              IF e[i] \in {"!", "'", "(", ")", "*"} THEN EscapeChar(e[i]) ELSE <<e[i]>>],
           <<>>)

\* The host with the region kept for s3 as for every other service.
GetHost_WithRegion(service, region, bucket) ==
  Join(FilterBoolean(<<IF service = S_s3 THEN bucket ELSE Undefined,
                       service, region, S_amazonaws>>),
       <<".">>)

GetHost(service, region, bucket) ==
  Join(FilterBoolean(<<IF service = S_s3 THEN bucket ELSE Undefined,
                       service,
                       IF service = S_s3 THEN Undefined ELSE region,
                       S_amazonaws>>),
       <<".">>)

(***************************************************************************)
(* BuildRequest                                                            *)
(***************************************************************************)

\* The payload argument is the one argument whose type the code tests
\* (typeof(payload) !== "string"), so it carries its type: undefined, a
\* string, or an object given as its <<key, value>> pairs.
PayloadUndefined == [type |-> "undefined", value |-> <<>>]

PayloadString(s) == [type |-> "string", value |-> s]

PayloadObject(pairs) == [type |-> "object", value |-> pairs]

\* query += `&${name}=${UrlEncode(params[name])}` for names[i], names[i+1], ...
RECURSIVE QueryParams(_, _, _)
QueryParams(params, names, i) ==
  IF i > Len(names) THEN <<>>
  ELSE <<"&">> \o names[i] \o <<"=">> \o UrlEncode(params[names[i]])
         \o QueryParams(params, names, i + 1)

\* canonHeaders += h.toLowerCase() + ":" + headers[h] + "\n"
RECURSIVE CanonHeaders(_, _, _)
CanonHeaders(headers, names, i) ==
  IF i > Len(names) THEN <<>>
  ELSE toLowerCase(names[i]) \o <<":">> \o headers[names[i]] \o <<"\n">>
         \o CanonHeaders(headers, names, i + 1)

\* signedHeaders += h.toLowerCase() + ";"
RECURSIVE SignedHeaders(_, _)
SignedHeaders(names, i) ==
  IF i > Len(names) THEN <<>>
  ELSE toLowerCase(names[i]) \o <<";">> \o SignedHeaders(names, i + 1)

\* The order in which BuildRequest visits the header names.
HeaderOrder(headers) == SortKeys(DOMAIN headers)

\* The order in which BuildRequest visits the parameter names.
ParamOrder(params) == SortKeys(DOMAIN params)

\* What a call of BuildRequest does when it throws: nothing else.
Throw(message, a) ==
  [thrown |-> message, returned |-> FALSE, request |-> Undefined, headers |-> a.headers,
   hashed |-> <<>>, signed |-> <<>>, keys |-> <<>>,
   host |-> Undefined, query |-> Undefined, signedHeaders |-> Undefined,
   canonHeaders |-> Undefined, CanonicalString |-> Undefined]

\* The validation without its second test (if (!action) throw ...).
Validate_ServiceOnly(a) ==
  IF Falsy(a.service) THEN S_MissingService ELSE Undefined

\* The parameter validation of BuildRequest: the error thrown, or Undefined.
Validate(a) ==
  IF Falsy(a.service) THEN S_MissingService
  ELSE IF Falsy(a.action) THEN S_MissingAction
  ELSE Undefined

\* The comparison without toLowerCase().
IsPost_CaseSensitive(method) == method = S_post

\* method.toLowerCase() == "post"
IsPost(method) == toLowerCase(method) = S_post

\* headers["Host"] = host; ... headers["X-Amz-Content-SHA256"] = hashedPayload;
MandatoryHeaders(headers, host, dateTimeStamp, action, hashedPayload) ==
  Put(Put(Put(Put(headers, S_Host, host),
              S_XAmzDate, dateTimeStamp),
          S_XAmzTarget, action),
      S_XAmzContentSHA256, hashedPayload)

\* The last step without delete headers["Host"].
FinalHeaders_KeepHost(headers, authHeader) ==
  Put(headers, S_Authorization, authHeader)

\* headers["Authorization"] = authHeader; delete headers["Host"];
FinalHeaders(headers, authHeader) ==
  Delete(Put(headers, S_Authorization, authHeader), S_Host)

\* BuildRequest(service, ..., bucket) for the arguments a, with the closure's
\* accessKey and secretKey and the instant new Date() gives.  The result is
\* the call's outcome: what it threw or returned, the headers object it was
\* given as it is at the end, every value it handed to Sha256Hash (hashed),
\* to GetSignatureKey (keys) and to Sha256Hmac (signed), and the locals the
\* canonical request is made of.
BuildRequest(a, ak, sk, date) ==
  IF Validate(a) # Undefined THEN Throw(Validate(a), a)
  ELSE
  LET service == a.service
      action  == a.action
      region  == Or(a.region, AWS_DEFAULT_REGION)
      method  == Or(a.method, S_GET)
      payload == IF a.payload.type = "undefined" \/ a.payload = PayloadString(<<>>)
                 THEN <<>>
                 ELSE IF a.payload.type # "string" THEN JSONstringify(a.payload.value)
                 ELSE a.payload.value
      uri     == Or(a.uri, S_Slash)
      bucket  == Or(a.bucket, AWS_DEFAULT_BUCKET)
      dateTimeStamp == formatDate(date)
      dateStamp     == SubSeq(dateTimeStamp, 1, 8)
      hashedPayload == Sha256Hash(payload)
      host     == GetHost(service, region, bucket)
      headers0 == IF a.headers = Undefined THEN EmptyObject ELSE a.headers
      query    == IF IsPost(method) THEN <<>>
                  ELSE S_Action \o action
                         \o (IF a.params = Undefined THEN <<>>
                             ELSE QueryParams(a.params, ParamOrder(a.params), 1))
      url      == IF IsPost(method) THEN S_https \o host \o uri
                  ELSE S_https \o host \o uri \o <<"?">> \o query
      headers1 == MandatoryHeaders(headers0, host, dateTimeStamp, action, hashedPayload)
      names    == HeaderOrder(headers1)
      canonHeaders  == CanonHeaders(headers1, names, 1)
      signedHeaders0 == SignedHeaders(names, 1)
      signedHeaders == SubSeq(signedHeaders0, 1, Len(signedHeaders0) - 1)
      CanonicalString ==
        method \o <<"\n">> \o uri \o <<"\n">> \o query \o <<"\n">> \o canonHeaders
          \o <<"\n">> \o signedHeaders \o <<"\n">> \o hashedPayload
      canonHash == Sha256Hash(CanonicalString)
      scope == dateStamp \o <<"/">> \o region \o <<"/">> \o service \o <<"/">> \o S_aws4_request
      StringToSign ==
        S_algorithm \o <<"\n">> \o dateTimeStamp \o <<"\n">> \o scope \o <<"\n">> \o canonHash
      key == GetSignatureKey(sk, dateStamp, region, service)
      signature == Sha256Hmac(StringToSign, key)
      authHeader ==
        S_algorithm \o S_Credential \o String(ak) \o <<"/">> \o scope
          \o S_SignedHeaders \o signedHeaders \o S_Signature \o signature
      headers2 == FinalHeaders(headers1, authHeader)
      requestObject ==
        [url |-> url, method |-> method, headers |-> headers2,
         muteHttpExceptions |-> TRUE, payload |-> payload]
  IN  [thrown |-> Undefined, returned |-> TRUE, request |-> requestObject,
       headers |-> headers2,
       hashed |-> <<payload, CanonicalString>>,
       signed |-> <<StringToSign>>,
       keys |-> <<<<sk, dateStamp, region, service>>>>,
       host |-> host, query |-> query, signedHeaders |-> signedHeaders,
       canonHeaders |-> canonHeaders, CanonicalString |-> CanonicalString]

\* SendRequest(request): the requests handed to UrlFetchApp.fetchAll.
SendRequest(request) == <<request>>

(***************************************************************************)
(* The callers' inputs                                                     *)
(***************************************************************************)

In_ec2 == <<"e", "c", "2">>

In_DescribeInstances == <<"D", "e", "s", "c", "r", "i", "b", "e", "I", "n", "s", "t", "a", "n", "c", "e", "s">>

In_us_west_2 == <<"u", "s", "-", "w", "e", "s", "t", "-", "2">>

In_mybucket == <<"m", "y", "b", "u", "c", "k", "e", "t">>

In_POST == <<"P", "O", "S", "T">>

In_Post == <<"P", "o", "s", "t">>

In_PUT == <<"P", "U", "T">>

In_path == <<"/", "x">>

In_Version == <<"V", "e", "r", "s", "i", "o", "n">>

In_2015_10_01 == <<"2", "0", "1", "5", "-", "1", "0", "-", "0", "1">>

In_tricky == <<"a", "!", "b", "'", "c", "(", "d", ")", "e", "*", "f">>

In_x_y == <<"x", " ", "y">>

In_access_key_id == <<"a", "c", "c", "e", "s", "s", "_", "k", "e", "y", "-", "i", "d">>

In_secret_access_key == <<"s", "e", "c", "r", "e", "t", "-", "a", "c", "c", "e", "s", "s", "-", "k", "e", "y">>

In_other_key == <<"o", "t", "h", "e", "r", "-", "k", "e", "y">>

In_body == <<"b", "o", "d", "y">>

In_test_key ==
  <<"w", "J", "a", "l", "r", "X", "U", "t", "n", "F", "E", "M", "I", "/", "K", "7", "M", "D", "E", "N", "G",
    "+", "b", "P", "x", "R", "f",
    "i", "C", "Y", "E", "X", "A", "M", "P", "L", "E", "K", "E", "Y">>

In_iam == <<"i", "a", "m">>

In_20120215 == <<"2", "0", "1", "2", "0", "2", "1", "5">>

In_20211231 == <<"2", "0", "2", "1", "1", "2", "3", "1">>

\* The instants new Date() may give.
Instants ==
  {[year |-> 2012, month |-> 2, day |-> 15, hours |-> 0, minutes |-> 0, seconds |-> 0],
   [year |-> 2021, month |-> 12, day |-> 31, hours |-> 23, minutes |-> 59, seconds |-> 59]}

\* Parameters whose names sort as Version, a, b and whose values need escaping.
In_params ==
  [k \in {In_Version, <<"a">>, <<"b">>} |->
     IF k = In_Version THEN In_2015_10_01 ELSE IF k = <<"a">> THEN In_x_y ELSE In_tricky]

\* The headers {"Z":1,"a":2,"M":3}.
In_headers ==
  [k \in {<<"Z">>, <<"a">>, <<"M">>} |->
     IF k = <<"Z">> THEN <<"1">> ELSE IF k = <<"a">> THEN <<"2">> ELSE <<"3">>]

\* AWS.request('ec2', 'DescribeInstances'): every optional argument left out.
Plain ==
  [service |-> In_ec2, action |-> In_DescribeInstances, params |-> Undefined,
   region |-> Undefined, method |-> Undefined, payload |-> PayloadUndefined,
   headers |-> Undefined, uri |-> Undefined, bucket |-> Undefined]

\* The calls made: Plain with some of its arguments varied.  A required
\* argument is left out or empty, with and without a headers object; the
\* service, region and bucket take every combination; so do the method and
\* the parameters; the path, the payload and the headers object vary alone.
Calls ==
  {[Plain EXCEPT !.service = sa[1], !.action = sa[2], !.headers = h] :
     sa \in {<<Undefined, In_DescribeInstances>>, <<<<>>, In_DescribeInstances>>,
             <<In_ec2, Undefined>>, <<In_ec2, <<>>>>, <<Undefined, Undefined>>,
             <<In_ec2, In_DescribeInstances>>},
     h \in {Undefined, In_headers}}
  \cup
  {[Plain EXCEPT !.service = s, !.region = r, !.bucket = b] :
     s \in {S_s3, In_ec2}, r \in {Undefined, In_us_west_2},
     b \in {Undefined, In_mybucket}}
  \cup
  {[Plain EXCEPT !.method = m, !.params = p] :
     m \in {Undefined, In_POST, In_Post, In_PUT}, p \in {Undefined, In_params}}
  \cup
  {[Plain EXCEPT !.uri = In_path], [Plain EXCEPT !.headers = EmptyObject]}
  \cup
  {[Plain EXCEPT !.payload = p] :
     p \in {PayloadString(<<>>), PayloadString(In_body),
            PayloadObject(<< <<<<"k">>, <<"v">>>> >>)}}

\* The key pairs given to AWS.init.
KeyPairs ==
  {<<In_access_key_id, In_secret_access_key>>, <<In_access_key_id, In_other_key>>}

\* The arguments given to AWS.getSignatureKey: those of TestAWS among them.
SignatureKeyCalls ==
  {In_test_key, In_secret_access_key, In_other_key} \X {In_20120215, In_20211231}
    \X {AWS_DEFAULT_REGION, In_us_west_2} \X {In_iam, In_ec2, S_s3}

\* How many times in a row a caller issues the same call with the same
\* headers object.
MaxCalls == 2

\* The longest byte array given to AWS.bytesToHex.
MaxBytes == 2

\* The bytes that arrays of several bytes are made of; one-element arrays
\* range over every value from -129 to 256.
SampleBytes == {-128, -1, 0, 10, 15, 16, 127, 128, 255}

ByteArrays ==
  {<<>>} \cup {<<b>> : b \in -129..256}
    \cup UNION {[1..n -> SampleBytes] : n \in 2..MaxBytes}

\* The longest string given to UrlEncode.
MaxChars == 2

\* The characters the strings given to UrlEncode are made of.
SampleChars == {"a", "Z", "0", "!", "'", "(", ")", "*", "~", " ", "/", "="}

UrlStrings == UNION {[1..n -> SampleChars] : n \in 0..MaxChars}

(***************************************************************************)
(* The state machine                                                       *)
(***************************************************************************)

\* The closure as constructed: let accessKey; let secretKey;
Construct ==
  /\ accessKey = Undefined
  /\ secretKey = Undefined
  /\ callerHeaders = Undefined
  /\ last = [op |-> "none"]

\* AWS.init(access_key, secret_key)
Init(access_key, secret_key) ==
  /\ accessKey' = access_key
  /\ secretKey' = secret_key
  /\ last' = [op |-> "init"]
  /\ UNCHANGED callerHeaders

\* AWS.request(...): SendRequest(BuildRequest(...)).  last records the call:
\* its arguments, the instant, the credentials as they were when it began,
\* its outcome and what was fetched; calls counts the calls made in a row
\* with these arguments, and prior is the call before when this one repeats
\* it.  callerHeaders is the headers object the caller passed, as the call
\* leaves it; a caller that passed none holds none.
BuildAndSendRequest(a, date, calls, prior) ==
  \E out \in {BuildRequest(a, accessKey, secretKey, date)} :
    /\ last' = [op |-> "request", args |-> a, date |-> date,
                accessKey |-> accessKey, secretKey |-> secretKey,
                out |-> out,
                fetched |-> IF out.returned THEN SendRequest(out.request) ELSE <<>>,
                calls |-> calls, prior |-> prior]
    /\ callerHeaders' = IF a.headers = Undefined THEN Undefined ELSE out.headers
    /\ UNCHANGED <<accessKey, secretKey>>

\* A caller makes a call, with no headers or with a headers object it has
\* just created.
Request ==
  \E a \in Calls, date \in Instants :
    BuildAndSendRequest(a, date, 1, [op |-> "none"])

\* The caller makes the same call again: the same arguments, the headers
\* argument being the object it passed before.
RequestAgain ==
  /\ last.op = "request"
  /\ last.calls < MaxCalls
  /\ \E date \in Instants :
       BuildAndSendRequest(
         [last.args EXCEPT !.headers = callerHeaders], date, last.calls + 1,
         [op |-> "request", date |-> last.date,
          accessKey |-> last.accessKey, secretKey |-> last.secretKey,
          returned |-> last.out.returned,
          authorization |-> IF last.out.returned
                            THEN last.out.request.headers[S_Authorization]
                            ELSE Undefined])

\* AWS.getSignatureKey(key, dateStamp, regionName, serviceName)
GetSignatureKeyCall(key, dateStamp, regionName, serviceName) ==
  /\ last' = [op |-> "getSignatureKey", key |-> key, dateStamp |-> dateStamp,
              regionName |-> regionName, serviceName |-> serviceName,
              accessKey |-> accessKey, secretKey |-> secretKey,
              result |-> GetSignatureKey(key, dateStamp, regionName, serviceName)]
  /\ UNCHANGED <<accessKey, secretKey, callerHeaders>>

\* AWS.bytesToHex(bytes)
BytesToHexCall(bytes) ==
  /\ last' = [op |-> "bytesToHex", bytes |-> bytes, result |-> BytesToHex(bytes)]
  /\ UNCHANGED <<accessKey, secretKey, callerHeaders>>

\* UrlEncode(str), as BuildRequest calls it on a parameter's value.
UrlEncodeCall(str) ==
  /\ last' = [op |-> "UrlEncode", str |-> str, result |-> UrlEncode(str)]
  /\ UNCHANGED <<accessKey, secretKey, callerHeaders>>

\* The requests: AWS.init once the keys are known, then AWS.request.
Next ==
  \/ Init(In_access_key_id, In_secret_access_key)
  \/ Request
  \/ RequestAgain

Spec == Construct /\ [][Next]_vars

\* The signing key: AWS.init with either key pair, AWS.getSignatureKey.
NextKey ==
  \/ \E pair \in KeyPairs : Init(pair[1], pair[2])
  \/ \E c \in SignatureKeyCalls : GetSignatureKeyCall(c[1], c[2], c[3], c[4])

SpecKey == Construct /\ [][NextKey]_vars

\* The hex conversion: AWS.bytesToHex on every array of ByteArrays.
NextHex == \E bytes \in ByteArrays : BytesToHexCall(bytes)

SpecHex == Construct /\ [][NextHex]_vars

\* The URL encoding: UrlEncode on every string of UrlStrings.
NextUrl == \E str \in UrlStrings : UrlEncodeCall(str)

SpecUrl == Construct /\ [][NextUrl]_vars

(***************************************************************************)
(* The claims                                                              *)
(***************************************************************************)

\* The last call was AWS.request and BuildRequest returned a request.
Returned == last.op = "request" /\ last.out.returned

\* The string s holds t as a substring; s starts with t.
Contains(s, t) == \E i \in 1..(Len(s) - Len(t) + 1) : SubSeq(s, i, i + Len(t) - 1) = t

StartsWith(s, t) == Len(s) >= Len(t) /\ SubSeq(s, 1, Len(t)) = t

S_MissingCredentials ==
  <<"M", "i", "s", "s", "i", "n", "g", "C", "r", "e", "d", "e", "n", "t", "i", "a", "l",
    "s">>

\* C1: AWS.request called with the required arguments while accessKey and
\* secretKey are unset (init never called) fails with MissingCredentials: no
\* signing key or signature is computed, no request is returned, nothing is
\* dispatched.
C1_MissingCredentials ==
  (/\ last.op = "request"
   /\ last.accessKey = Undefined /\ last.secretKey = Undefined
   /\ Validate(last.args) = Undefined)
    => /\ last.out.thrown = S_MissingCredentials
       /\ ~last.out.returned
       /\ last.out.keys = <<>> /\ last.out.signed = <<>>
       /\ last.fetched = <<>>

\* C2: when a call repeats the call before it with the same arguments (the
\* same headers argument among them), the same credentials and the same
\* instant, and both return a request, the two Authorization headers are
\* equal.
C2_SameCallSameAuthorization ==
  (/\ Returned
   /\ last.prior.op = "request" /\ last.prior.returned
   /\ last.prior.date = last.date
   /\ last.prior.accessKey = last.accessKey
   /\ last.prior.secretKey = last.secretKey)
    => last.out.request.headers[S_Authorization] = last.prior.authorization

\* The headers BuildRequest signs in the last call, the caller's and the
\* four it sets, by lower-cased name.
SignedByLowerName ==
  LET signed == MandatoryHeaders(
                  IF last.args.headers = Undefined THEN EmptyObject ELSE last.args.headers,
                  last.out.host, formatDate(last.date), last.args.action,
                  last.out.request.headers[S_XAmzContentSHA256])
  IN  [n \in {toLowerCase(k) : k \in DOMAIN signed} |->
         signed[CHOOSE k \in DOMAIN signed : toLowerCase(k) = n]]

\* C3: in every request built, SignedHeaders is the lower-cased names of all
\* the headers in ascending order of the lower-cased names, joined by ';'
\* with no trailing separator, and the canonical header block has one line
\* 'name:value' for each, in that order.
C3_CaseInsensitiveHeaderOrder ==
  Returned =>
    LET sorted == SortKeys(DOMAIN SignedByLowerName)
    IN  /\ last.out.signedHeaders = Join(sorted, <<";">>)
        /\ last.out.canonHeaders =
             Join([i \in DOMAIN sorted |->
                     sorted[i] \o <<":">> \o SignedByLowerName[sorted[i]] \o <<"\n">>],
                  <<>>)

\* C4: AWS.request with a falsy service or action throws the missing-
\* parameter error (the service's first) before anything is hashed, any
\* signing key derived or anything signed; nothing is fetched, the
\* credentials are as they were when the call began and the caller's headers
\* object is as it was passed.
C4_MissingParameterFailsFast ==
  (last.op = "request" /\ (Falsy(last.args.service) \/ Falsy(last.args.action)))
    => /\ last.out.thrown =
            IF Falsy(last.args.service) THEN S_MissingService ELSE S_MissingAction
       /\ ~last.out.returned
       /\ last.out.hashed = <<>> /\ last.out.keys = <<>> /\ last.out.signed = <<>>
       /\ last.fetched = <<>>
       /\ accessKey = last.accessKey /\ secretKey = last.secretKey
       /\ callerHeaders = last.args.headers

\* C4's case: with the keys set, a call without a service that passes the
\* headers {"Z":1,"a":2,"M":3} has thrown.
C4_Witness ==
  /\ last.op = "request"
  /\ last.accessKey = In_access_key_id
  /\ last.args.service = Undefined
  /\ last.args.headers = In_headers
  /\ last.out.thrown = S_MissingService
  /\ callerHeaders = In_headers

\* What C5 says UrlEncode gives for one character: the character itself
\* when it is a letter, a digit or one of - _ . ~ and otherwise '%' and its
\* two upper-case hex digits.
PercentEncoded(c) ==
  IF \/ c \in {"-", "_", ".", "~"}
     \/ charCodeAt(c) \in (48..57) \cup (65..90) \cup (97..122)
  THEN <<c>>
  ELSE <<"%", toUpperCase(Digits)[(charCodeAt(c) \div 16) + 1],
         toUpperCase(Digits)[(charCodeAt(c) % 16) + 1]>>

\* C5: UrlEncode(str) holds none of ! ' ( ) * : each is written as '%' and
\* its two upper-case hex digits (%21 %27 %28 %29 %2A), the rest as
\* encodeURIComponent writes it.
C5_UrlEncodeUpperCaseHex ==
  last.op = "UrlEncode" =>
    /\ \A i \in DOMAIN last.result : last.result[i] \notin {"!", "'", "(", ")", "*"}
    /\ last.result = Join([i \in DOMAIN last.str |-> PercentEncoded(last.str[i])], <<>>)

S_host == <<"h", "o", "s", "t">>

\* C6: the headers of every request returned hold X-Amz-Date, X-Amz-Target
\* (the action), X-Amz-Content-SHA256 (the hash of the request's payload)
\* and Authorization, and no Host, while the SignedHeaders list inside the
\* Authorization value names host.
C6_ReturnedHeaders ==
  Returned =>
    LET headers == last.out.request.headers
    IN  /\ {S_XAmzDate, S_XAmzTarget, S_XAmzContentSHA256, S_Authorization}
             \subseteq DOMAIN headers
        /\ headers[S_XAmzTarget] = last.args.action
        /\ headers[S_XAmzContentSHA256] = Sha256Hash(last.out.request.payload)
        /\ S_Host \notin DOMAIN headers
        /\ Contains(headers[S_Authorization],
                    S_SignedHeaders \o last.out.signedHeaders \o S_Signature)
        /\ Contains(<<";">> \o last.out.signedHeaders \o <<";">>,
                    <<";">> \o S_host \o <<";">>)

\* C6's case: a request was returned for a call that passed the headers
\* {"Z":1,"a":2,"M":3}, and those headers are still there beside the
\* ones BuildRequest set.
C6_Witness ==
  /\ Returned
  /\ last.args.headers = In_headers
  /\ DOMAIN In_headers \subseteq DOMAIN last.out.request.headers
  /\ last.out.request.headers[S_XAmzTarget] = In_DescribeInstances

\* The keys of params in ascending order, found among all their orders.
Ascending(params) ==
  CHOOSE names \in [1..Cardinality(DOMAIN params) -> DOMAIN params] :
    \A i, j \in DOMAIN names : i < j => StrLess(names[i], names[j])

\* C7: when the method is POST in any letter case the query string is empty
\* and the URL has no '?'; otherwise the query string is 'Action=<action>'
\* and then '&<key>=<UrlEncode(value)>' for each key of params in ascending
\* order, and it is both what follows '?' in the URL and the third line of
\* the canonical request.
C7_QueryString ==
  Returned =>
    LET method == IF Falsy(last.args.method) THEN S_GET ELSE last.args.method
        uri    == IF Falsy(last.args.uri) THEN S_Slash ELSE last.args.uri
        names  == IF last.args.params = Undefined THEN <<>>
                  ELSE Ascending(last.args.params)
        pairs  == [i \in DOMAIN names |->
                     <<"&">> \o names[i] \o <<"=">> \o UrlEncode(last.args.params[names[i]])]
        query  == IF toUpperCase(method) = In_POST THEN <<>>
                  ELSE S_Action \o last.args.action \o Join(pairs, <<>>)
    IN  /\ last.out.query = query
        /\ StartsWith(last.out.CanonicalString,
                      method \o <<"\n">> \o uri \o <<"\n">> \o query \o <<"\n">>)
        /\ IF toUpperCase(method) = In_POST
           THEN \A i \in DOMAIN last.out.request.url : last.out.request.url[i] # "?"
           ELSE last.out.request.url
                  = S_https \o last.out.host \o uri \o <<"?">> \o query

\* C7's case: a PUT with the three parameters was built, with this query.
C7_Witness ==
  /\ Returned
  /\ last.args.method = In_PUT
  /\ last.args.params = In_params
  /\ last.out.query =
       <<"A", "c", "t", "i", "o", "n", "=", "D", "e", "s", "c", "r", "i", "b", "e", "I",
         "n", "s", "t", "a", "n", "c", "e", "s", "&", "V", "e", "r", "s", "i", "o", "n",
         "=", "2", "0", "1", "5", "-", "1", "0", "-", "0", "1", "&", "a", "=", "x", "%",
         "2", "0", "y", "&", "b", "=", "a", "%", "2", "1", "b", "%", "2", "7", "c", "%",
         "2", "8", "d", "%", "2", "9", "e", "%", "2", "a", "f">>

\* C8: the host is '<bucket>.s3.amazonaws.com' for the service s3 and
\* '<service>.<region>.amazonaws.com' for any other, a missing region being
\* 'us-east-1' and a missing bucket the default bucket, and the URL starts
\* with 'https://<host><uri>'.
C8_Host ==
  Returned =>
    LET region == IF Falsy(last.args.region) THEN AWS_DEFAULT_REGION ELSE last.args.region
        bucket == IF Falsy(last.args.bucket) THEN AWS_DEFAULT_BUCKET ELSE last.args.bucket
        uri    == IF Falsy(last.args.uri) THEN S_Slash ELSE last.args.uri
        host   == IF last.args.service = S_s3
                  THEN bucket \o <<".">> \o S_s3 \o <<".">> \o S_amazonaws
                  ELSE last.args.service \o <<".">> \o region \o <<".">> \o S_amazonaws
    IN  /\ last.out.host = host
        /\ StartsWith(last.out.request.url, S_https \o host \o uri)

\* C8's case: a request to s3 in us-west-2 with no bucket given goes to the
\* default bucket's host.
C8_Witness ==
  /\ Returned
  /\ last.args.service = S_s3
  /\ last.args.region = In_us_west_2
  /\ last.args.bucket = Undefined
  /\ last.out.host =
       <<"D", "e", "f", "a", "u", "l", "t", "S", "3", "B", "u", "c", "k", "e", "t", ".",
         "s", "3", ".", "a", "m", "a", "z", "o", "n", "a", "w", "s", ".", "c", "o", "m">>

\* C9: getSignatureKey returns HMAC('aws4_request', HMAC(serviceName,
\* HMAC(regionName, HMAC(dateStamp, 'AWS4' + key)))), each result the key of
\* the next HMAC, whatever the stored credentials are, and leaves them as
\* they were.
C9_SignatureKeyChain ==
  last.op = "getSignatureKey" =>
    /\ last.result =
         computeHmacSha256Signature(
           getBytes(S_aws4_request),
           computeHmacSha256Signature(
             getBytes(last.serviceName),
             computeHmacSha256Signature(
               getBytes(last.regionName),
               computeHmacSha256Signature(
                 getBytes(last.dateStamp), getBytes(S_AWS4 \o last.key)))))
    /\ accessKey = last.accessKey
    /\ secretKey = last.secretKey

\* C9's case: TestAWS's call, made while another secret key is stored.
C9_Witness ==
  /\ last.op = "getSignatureKey"
  /\ last.key = In_test_key
  /\ last.dateStamp = In_20120215
  /\ last.regionName = AWS_DEFAULT_REGION
  /\ last.serviceName = In_iam
  /\ secretKey = In_other_key
  /\ Len(last.result) > 0

\* C10: for bytes each in -128..255, bytesToHex gives 2 * bytes.length
\* characters, the i-th pair being the two lower-case hex digits of bytes[i]
\* modulo 256.
C10_BytesToHex ==
  (last.op = "bytesToHex" /\ \A i \in DOMAIN last.bytes : last.bytes[i] \in -128..255)
    => /\ Len(last.result) = 2 * Len(last.bytes)
       /\ \A i \in DOMAIN last.bytes :
            LET u == IF last.bytes[i] < 0 THEN 256 + last.bytes[i] ELSE last.bytes[i]
            IN  /\ last.result[2 * i - 1] = Digits[(u \div 16) + 1]
                /\ last.result[2 * i] = Digits[(u % 16) + 1]

\* C10's case: the array [-1, 10] was converted, to "ff0a".
C10_Witness ==
  /\ last.op = "bytesToHex"
  /\ last.bytes = <<-1, 10>>
  /\ last.result = <<"f", "f", "0", "a">>

====
